---- MODULE Spec2Model ----
(***************************************************************************)
(* Model of the structured-output helper of demo_agent_pydanticai.py       *)
(* (SimpleAgent.run_sync, create_agent and the command-line entry point)   *)
(* and of the create_agent variants under pydanticai-sample/azure-ai.      *)
(*                                                                         *)
(* Spec       : calls of SimpleAgent.run_sync on one agent.                *)
(* SpecCreate : calls of create_agent (three implementations) and the      *)
(*              entry points that call it.                                 *)
(***************************************************************************)
EXTENDS Naturals, Integers, Sequences, FiniteSets, TLC

VARIABLES
    agent,          \* SimpleAgent: [client, output_type]
    pc,             \* position inside run_sync
    query,          \* argument of the running run_sync call
    messages,       \* local `messages` of run_sync
    requests,       \* chat.completions.create calls issued by this run_sync call
    responses,      \* what each of those calls did (returned / raised)
    response,       \* local `response`
    json_content,   \* local `json_content`
    usage_info,     \* local `usage_info`
    outcome,        \* how the run_sync call ended
    steps,          \* the steps this run_sync call has executed, in order
    prev            \* an earlier finished call on the same agent

runVars == <<agent, pc, query, messages, requests, responses, response,
             json_content, usage_info, outcome, steps, prev>>

VARIABLES
    impl,           \* the script whose create_agent runs: "root", "azure_ai", "debug"
    env,            \* os.environ after load_dotenv()
    cpc,            \* position inside create_agent
    caller,         \* "main" (the script's entry point) or "direct"
    args,           \* the parsed command line of the entry point
    provider_type,  \* parameter of the running create_agent call
    output_type,    \* parameter of the running create_agent call
    defaulted,      \* the call left output_type to its default
    debug_level,    \* parameter of the running create_agent call (debug script)
    env_reads,      \* environment variables create_agent has read in this call
    constructed,    \* client / provider constructions attempted in this call
    logger,         \* the logger set up by the debug script
    result,         \* how the create_agent call ended
    warned,         \* the entry point printed the Azure configuration warning
    main_out        \* how the entry point went on after create_agent

createVars == <<impl, env, cpc, caller, args, provider_type, output_type, defaulted,
                debug_level, env_reads, constructed, logger, result, warned, main_out>>

VARIABLES
    vpc,            \* position inside main of demo_multimodal_autogen.py
    vclient,        \* local `client` of main
    vagent,         \* local `agent` of main
    vresponse,      \* local `response` of main
    closes,         \* number of client.close() calls so far
    printed,        \* what main has printed, in order
    vexit           \* how main ended

visionVars == <<vpc, vclient, vagent, vresponse, closes, printed, vexit>>

None == [kind |-> "None"]

-----------------------------------------------------------------------------
(* Output types (pydantic models)                                          *)

CityLocation == "CityLocation"

Mountain == "Mountain"

DynamicResponse == "DynamicResponse"

OutputTypes == {CityLocation, Mountain, DynamicResponse}

\* declared fields of each model, in declaration order; all are `str`
Fields(T) ==
    IF T = CityLocation THEN <<"city", "country">>
    ELSE IF T = Mountain THEN <<"name", "height", "location">>
    ELSE <<>>

\* model_config = {"extra": "allow"} only on DynamicResponse
ExtraAllowed(T) == T = DynamicResponse

Range(s) == {s[i] : i \in 1..Len(s)}

\* pydantic's title of a field: the capitalised field name
FieldTitle(f) ==
    CASE f = "city" -> "City"
      [] f = "country" -> "Country"
      [] f = "name" -> "Name"
      [] f = "height" -> "Height"
      [] f = "location" -> "Location"

\* output_type.model_json_schema(): the schema as a dictionary, keys in the
\* order pydantic emits them
model_json_schema(T) ==
    [ additionalProperties |-> ExtraAllowed(T),
      description |-> IF T = DynamicResponse
                      THEN <<"A flexible model that can handle any type of response">>
                      ELSE <<>>,
      properties |-> [i \in 1..Len(Fields(T)) |->
                        [name |-> Fields(T)[i], title |-> FieldTitle(Fields(T)[i]),
                         type |-> "string"]],
      required |-> Fields(T),
      title |-> T,
      type |-> "object" ]

\* json.dumps: the text as a sequence of tokens (punctuation and string
\* literals); items are joined with ","
RECURSIVE JoinProps(_)
JoinProps(ps) ==
    IF ps = <<>> THEN <<>>
    ELSE <<Head(ps).name, ":", "{", "title", ":", Head(ps).title, ",",
           "type", ":", Head(ps).type, "}">>
         \o (IF Len(ps) > 1 THEN <<",">> ELSE <<>>)
         \o JoinProps(Tail(ps))

RECURSIVE JoinStrings(_)
JoinStrings(ss) ==
    IF ss = <<>> THEN <<>>
    ELSE <<Head(ss)>> \o (IF Len(ss) > 1 THEN <<",">> ELSE <<>>)
         \o JoinStrings(Tail(ss))

json_dumps(schema) ==
    <<"{">>
    \o (IF schema.additionalProperties
        THEN <<"additionalProperties", ":", "true", ",">> ELSE <<>>)
    \o (IF schema.description # <<>>
        THEN <<"description", ":">> \o schema.description \o <<",">> ELSE <<>>)
    \o <<"properties", ":", "{">> \o JoinProps(schema.properties) \o <<"}", ",">>
    \o (IF schema.required # <<>>
        THEN <<"required", ":", "[">> \o JoinStrings(schema.required) \o <<"]", ",">>
        ELSE <<>>)
    \o <<"title", ":", schema.title, ",", "type", ":", schema.type, "}">>

\* (mutant) the schema is computed but never put into the prompt
system_content_NoSchema(T) ==
    IF T = DynamicResponse
    THEN <<"You are a helpful assistant that provides information in a structured JSON format.",
           "Please provide your answer as a JSON object with relevant key-value pairs that best answer the user's question.",
           "Be concise but informative. Return ONLY valid JSON without any preamble or explanation.">>
    ELSE <<"You are a helpful assistant that outputs information in a specific JSON format.",
           "The required output format follows this schema:",
           "Only return valid JSON that matches this schema, without any preamble or explanation.">>

\* the system message text of run_sync, as a sequence of tokens
system_content(T) ==
    IF T = DynamicResponse
    THEN <<"You are a helpful assistant that provides information in a structured JSON format.",
           "Please provide your answer as a JSON object with relevant key-value pairs that best answer the user's question.",
           "Be concise but informative. Return ONLY valid JSON without any preamble or explanation.">>
    ELSE <<"You are a helpful assistant that outputs information in a specific JSON format.",
           "The required output format follows this schema:">>
         \o json_dumps(model_json_schema(T))
         \o <<"Only return valid JSON that matches this schema, without any preamble or explanation.">>

\* `needle` occurs in `hay` as a contiguous piece of text
Contains(hay, needle) ==
    \E i \in 0..(Len(hay) - Len(needle)) :
        \A j \in 1..Len(needle) : hay[i + j] = needle[j]

-----------------------------------------------------------------------------
(* Chat-completion responses and their validation                          *)

MaxTokens == 1

Str(v) == [t |-> "str", v |-> v]

Num(v) == [t |-> "num", v |-> v]

Obj(f) == [kind |-> "object", fields |-> f]

NoFields == [k \in {} |-> None]

\* message contents a model can answer with: nothing, text that is not
\* JSON, a JSON array, and JSON objects
Contents ==
    { None,
      [kind |-> "text"],
      [kind |-> "array"],
      Obj(NoFields),
      Obj("city" :> Str("London") @@ "country" :> Str("United Kingdom")),
      Obj("city" :> Str("London") @@ "country" :> Num("44")),
      Obj("city" :> Str("London")),
      Obj("city" :> Str("London") @@ "country" :> Str("United Kingdom")
          @@ "year" :> Num("2012")),
      Obj("name" :> Str("Everest") @@ "height" :> Str("8849")
          @@ "location" :> Str("Nepal")),
      Obj("name" :> Str("Everest") @@ "height" :> Num("8849")
          @@ "location" :> Str("Nepal")) }

Usages ==
    { [prompt_tokens |-> p, completion_tokens |-> 1, total_tokens |-> p + 1] :
        p \in 1..MaxTokens }

Choice(c) == [message |-> [content |-> c]]

\* the ChatCompletion objects a request can return: choices may be empty
\* and usage may be absent (both are optional in the client library)
Responses ==
    { [choices |-> <<Choice(c)>>, usage |-> u] : c \in Contents, u \in Usages }
    \cup { [choices |-> <<>>, usage |-> u] : u \in Usages }
    \cup { [choices |-> <<Choice(c)>>, usage |-> None] :
             c \in { [kind |-> "text"],
                     Obj("city" :> Str("London") @@ "country" :> Str("United Kingdom")) } }

\* what one chat.completions.create call does: it returns a response or
\* raises
ClientResults ==
    { [kind |-> "return", response |-> r] : r \in Responses }
    \cup { [kind |-> "raise"] }

Restrict(f, S) == [k \in (DOMAIN f) \cap S |-> f[k]]

\* output_type.model_validate_json(json_content): the parsed model, or a
\* failure when the content is not a JSON object or a declared field is
\* missing or not a string; undeclared keys are kept only with extra=allow
model_validate_json(T, content) ==
    IF content = None \/ content.kind # "object"
    THEN [ok |-> FALSE]
    ELSE IF \A f \in Range(Fields(T)) :
               f \in DOMAIN content.fields /\ content.fields[f].t = "str"
         THEN [ok |-> TRUE,
               output |-> [type |-> T,
                           fields |-> IF ExtraAllowed(T) THEN content.fields
                                      ELSE Restrict(content.fields, Range(Fields(T)))]]
         ELSE [ok |-> FALSE]

AgentResult(output, usage) ==
    [kind |-> "AgentResult", output |-> output, usage_info |-> usage]

Raise(e) == [kind |-> "raise", exc |-> e]

-----------------------------------------------------------------------------
(* Clients and agents                                                      *)

GithubBaseUrl == "https://models.github.ai/inference"

OpenAIBaseUrl == "https://api.openai.com/v1"

\* OpenAI(api_key=..., base_url=..., http_client=...); url_str tells whether
\* the client exposes base_url as a str or as a URL object, which does not
\* support the `in` test
OpenAI(base_url, http_client, url_str) ==
    [cls |-> "OpenAI", base_url |-> base_url, api_version |-> "",
     http_client |-> http_client, url_str |-> url_str]

AzureOpenAI(azure_endpoint, api_version, http_client, url_str) ==
    [cls |-> "AzureOpenAI", base_url |-> azure_endpoint, api_version |-> api_version,
     http_client |-> http_client, url_str |-> url_str]

SimpleAgent(client, T) ==
    [client |-> client, output_type |-> T]

Queries == {"Where were the olympics held in 2012?", "What is the highest mountain?"}

AzureEndpoint == "https://example.openai.azure.com/"

DefaultApiVersion == "2023-12-01-preview"

\* the clients create_agent hands to SimpleAgent
RunClients ==
    { OpenAI(GithubBaseUrl, FALSE, s) : s \in BOOLEAN }
    \cup { OpenAI(OpenAIBaseUrl, FALSE, s) : s \in BOOLEAN }
    \cup { AzureOpenAI(AzureEndpoint, DefaultApiVersion, FALSE, FALSE) }

-----------------------------------------------------------------------------
(* SimpleAgent.run_sync                                                    *)

ResponseFormat == [type |-> "json_object"]

Request(model, msgs) ==
    [model |-> model, response_format |-> ResponseFormat, messages |-> msgs]

CallRecord == [query |-> query, responses |-> responses, outcome |-> outcome]

\* run_sync(query) is entered; the previous call, if any, has ended
Call(q) ==
    /\ pc \in {"idle", "done"}
    /\ query' = q
    /\ pc' = "build"
    /\ messages' = <<>>
    /\ requests' = <<>>
    /\ responses' = <<>>
    /\ response' = None
    /\ json_content' = None
    /\ usage_info' = None
    /\ outcome' = None
    /\ steps' = <<>>
    /\ prev' \in {prev} \cup (IF pc = "done" THEN {CallRecord} ELSE {})
    /\ UNCHANGED agent
    /\ UNCHANGED <<createVars, visionVars>>

\* schema, system_content and messages are computed
BuildPrompt ==
    /\ pc = "build"
    /\ messages' = << [role |-> "system", content |-> system_content(agent.output_type)],
                      [role |-> "user", content |-> query] >>
    /\ steps' = Append(steps, "build")
    /\ pc' = "request"
    /\ UNCHANGED <<agent, query, requests, responses, response, json_content,
                   usage_info, outcome, prev>>
    /\ UNCHANGED <<createVars, visionVars>>

\* "github.ai" in getattr(self.client, "base_url", "")
HasGithubAi(client) == client.base_url = GithubBaseUrl

\* (mutant) the first failure is caught for every client class
CatchesFirstFailure_Always(client) == TRUE

\* the try/except around the first call exists only on the
\* isinstance(self.client, AzureOpenAI) branch
CatchesFirstFailure(client) == client.cls = "AzureOpenAI"

\* (mutant) the fallback repeats the first model name
FallbackModel_Same == "gpt-4o"

\* the deployment name of the fallback call
FallbackModel == "gpt-4"

\* the first chat.completions.create call: model "gpt-4o", or
\* "openai/gpt-4o" for a GitHub client; a raise is caught only on the
\* AzureOpenAI branch
SendRequest ==
    /\ pc = "request"
    /\ IF agent.client.cls # "AzureOpenAI" /\ ~agent.client.url_str
       THEN \* the `in` test on a URL object raises TypeError
            /\ outcome' = Raise("TypeError")
            /\ pc' = "done"
            /\ UNCHANGED <<requests, responses, response, steps>>
       ELSE LET model_name ==
                    IF agent.client.cls = "AzureOpenAI" THEN "gpt-4o"
                    ELSE IF HasGithubAi(agent.client) THEN "openai/gpt-4o"
                    ELSE "gpt-4o"
            IN /\ requests' = Append(requests, Request(model_name, messages))
               /\ steps' = Append(steps, "request")
               /\ \E res \in ClientResults :
                    /\ responses' = Append(responses, res)
                    /\ IF res.kind = "return"
                       THEN /\ response' = res.response
                            /\ pc' = "read"
                            /\ UNCHANGED outcome
                       ELSE IF CatchesFirstFailure(agent.client)
                       THEN /\ pc' = "fallback"
                            /\ UNCHANGED <<response, outcome>>
                       ELSE /\ pc' = "done"
                            /\ outcome' = Raise("APIError")
                            /\ UNCHANGED response
    /\ UNCHANGED <<agent, query, messages, json_content, usage_info, prev>>
    /\ UNCHANGED <<createVars, visionVars>>

\* the except branch of the AzureOpenAI path: one more call with the
\* deployment name "gpt-4"; its exception is not caught
SendFallback ==
    /\ pc = "fallback"
    /\ requests' = Append(requests, Request(FallbackModel, messages))
    /\ steps' = Append(steps, "request")
    /\ \E res \in ClientResults :
         /\ responses' = Append(responses, res)
         /\ IF res.kind = "return"
            THEN /\ response' = res.response
                 /\ pc' = "read"
                 /\ UNCHANGED outcome
            ELSE /\ pc' = "done"
                 /\ outcome' = Raise("APIError")
                 /\ UNCHANGED response
    /\ UNCHANGED <<agent, query, messages, json_content, usage_info, prev>>
    /\ UNCHANGED <<createVars, visionVars>>

\* json_content and usage_info are read from the response
ReadResponse ==
    /\ pc = "read"
    /\ steps' = Append(steps, "read")
    /\ IF response.choices = <<>>
       THEN /\ outcome' = Raise("IndexError")
            /\ pc' = "done"
            /\ UNCHANGED <<json_content, usage_info>>
       ELSE IF response.usage = None
       THEN /\ outcome' = Raise("AttributeError")
            /\ pc' = "done"
            /\ json_content' = response.choices[1].message.content
            /\ UNCHANGED usage_info
       ELSE /\ json_content' = response.choices[1].message.content
            /\ usage_info' = [prompt_tokens |-> response.usage.prompt_tokens,
                              completion_tokens |-> response.usage.completion_tokens,
                              total_tokens |-> response.usage.total_tokens]
            /\ pc' = "validate"
            /\ UNCHANGED outcome
    /\ UNCHANGED <<agent, query, messages, requests, responses, response, prev>>
    /\ UNCHANGED <<createVars, visionVars>>

\* (mutant) the parsed content is returned without validation
Validate_Unchecked ==
    /\ pc = "validate"
    /\ steps' = Append(steps, "validate")
    /\ outcome' = AgentResult([type |-> agent.output_type,
                               fields |-> IF json_content # None /\ json_content.kind = "object"
                                          THEN json_content.fields ELSE NoFields],
                              usage_info)
    /\ pc' = "done"
    /\ UNCHANGED <<agent, query, messages, requests, responses, response,
                   json_content, usage_info, prev>>
    /\ UNCHANGED <<createVars, visionVars>>

\* (mutant) a failed validation sends the request once more
Validate_Retry ==
    /\ pc = "validate"
    /\ steps' = Append(steps, "validate")
    /\ LET v == model_validate_json(agent.output_type, json_content)
       IN IF v.ok
          THEN outcome' = AgentResult(v.output, usage_info) /\ pc' = "done"
          ELSE IF Len(steps) < 5
          THEN outcome' = outcome /\ pc' = "request"
          ELSE outcome' = Raise("ValueError") /\ pc' = "done"
    /\ UNCHANGED <<agent, query, messages, requests, responses, response,
                   json_content, usage_info, prev>>
    /\ UNCHANGED <<createVars, visionVars>>

\* (mutant) a failed validation makes the agent fall back to the dynamic
\* schema for later calls
Validate_SwitchType ==
    /\ pc = "validate"
    /\ steps' = Append(steps, "validate")
    /\ LET v == model_validate_json(agent.output_type, json_content)
       IN /\ outcome' = IF v.ok THEN AgentResult(v.output, usage_info)
                        ELSE Raise("ValueError")
          /\ agent' = IF v.ok THEN agent
                      ELSE [agent EXCEPT !.output_type = DynamicResponse]
    /\ pc' = "done"
    /\ UNCHANGED <<query, messages, requests, responses, response,
                   json_content, usage_info, prev>>
    /\ UNCHANGED <<createVars, visionVars>>

\* model_validate_json inside try/except: AgentResult or ValueError
Validate ==
    /\ pc = "validate"
    /\ steps' = Append(steps, "validate")
    /\ LET v == model_validate_json(agent.output_type, json_content)
       IN outcome' = IF v.ok THEN AgentResult(v.output, usage_info)
                     ELSE Raise("ValueError")
    /\ pc' = "done"
    /\ UNCHANGED <<agent, query, messages, requests, responses, response,
                   json_content, usage_info, prev>>
    /\ UNCHANGED <<createVars, visionVars>>

run_sync == BuildPrompt \/ SendRequest \/ SendFallback \/ ReadResponse \/ Validate

-----------------------------------------------------------------------------
(* create_agent and the entry points                                       *)

Impls == {"root", "azure_ai", "debug"}

\* os.environ.get(name) of a variable that is not set
PyNone == "<None>"

\* an argument the caller did not pass
Omitted == "<omitted>"

PlaceholderEndpoint == "https://your-azure-endpoint.openai.azure.com/"

Environments ==
    [ GITHUB_TOKEN : {PyNone, "", "ghp_token"},
      AZURE_ENDPOINT : {PyNone, "", PlaceholderEndpoint, AzureEndpoint},
      AZURE_API_KEY : {PyNone, "", "azure-key"},
      AZURE_API_VERSION : {PyNone, "2024-06-01"},
      OPENAI_API_KEY : {PyNone, "", "sk-key"} ]

os_environ_get(e, name) == e[name]

os_environ_get_default(e, name, default) ==
    IF e[name] = PyNone THEN default ELSE e[name]

\* Python's `not value` for a str or None
Not(value) == value \in {PyNone, ""}

\* (mutant) an unknown provider type is served by the last branch
Branch_DefaultLocal(pt) ==
    IF pt \in {"github", "azure"} THEN pt ELSE "local"

\* the if / elif / elif / else chain on provider_type
Branch(pt) ==
    IF pt = "github" THEN "github"
    ELSE IF pt = "azure" THEN "azure"
    ELSE IF pt = "local" THEN "local"
    ELSE "unsupported"

\* the environment variables a branch reads
BranchReads(b) ==
    CASE b = "github" -> {"GITHUB_TOKEN"}
      [] b = "azure" -> {"AZURE_ENDPOINT", "AZURE_API_KEY", "AZURE_API_VERSION"}
      [] b = "local" -> {"OPENAI_API_KEY"}
      [] OTHER -> {}

\* (mutant) only an unset variable counts as missing, an empty one passes
CredentialsMissing_UnsetOnly(b, e) ==
    CASE b = "github" -> os_environ_get(e, "GITHUB_TOKEN") = PyNone
      [] b = "azure" -> \/ os_environ_get(e, "AZURE_ENDPOINT") = PyNone
                        \/ os_environ_get(e, "AZURE_API_KEY") = PyNone
      [] b = "local" -> os_environ_get(e, "OPENAI_API_KEY") = PyNone
      [] OTHER -> FALSE

\* the `if not ...: raise ValueError` test of a branch
CredentialsMissing(b, e) ==
    CASE b = "github" -> Not(os_environ_get(e, "GITHUB_TOKEN"))
      [] b = "azure" -> \/ Not(os_environ_get(e, "AZURE_ENDPOINT"))
                        \/ Not(os_environ_get(e, "AZURE_API_KEY"))
      [] b = "local" -> Not(os_environ_get(e, "OPENAI_API_KEY"))
      [] OTHER -> FALSE

MissingMessage(b) ==
    CASE b = "github" -> <<"GITHUB_TOKEN not set in environment">>
      [] b = "azure" -> <<"AZURE_ENDPOINT or AZURE_API_KEY not set in environment">>
      [] b = "local" -> <<"OPENAI_API_KEY not set in environment">>

RaiseMsg(e, msg) == [kind |-> "raise", exc |-> e, msg |-> msg]

\* what a constructor call does
ConstructResults == {"ok", "TypeError:proxies", "TypeError:other", "OpenAIError"}

IsTypeError(r) == r \in {"TypeError:proxies", "TypeError:other"}

\* 'proxies' in str(e)
MentionsProxies(r) == r = "TypeError:proxies"

ExcOf(r) == IF IsTypeError(r) THEN "TypeError" ELSE r

\* the keyword arguments every construction attempt of a branch passes
Kwargs(b, e) ==
    CASE b = "github" -> [api_key |-> os_environ_get(e, "GITHUB_TOKEN"),
                          base_url |-> GithubBaseUrl, api_version |-> ""]
      [] b = "azure" -> [api_key |-> os_environ_get(e, "AZURE_API_KEY"),
                         base_url |-> os_environ_get(e, "AZURE_ENDPOINT"),
                         api_version |-> os_environ_get_default(e, "AZURE_API_VERSION",
                                                                DefaultApiVersion)]
      [] b = "local" -> [api_key |-> os_environ_get(e, "OPENAI_API_KEY"),
                         base_url |-> OpenAIBaseUrl, api_version |-> ""]

ClientClass(b) == IF b = "azure" THEN "AzureOpenAI" ELSE "OpenAI"

ProviderClass(b) == IF b = "azure" THEN "AzureProvider" ELSE "OpenAIProvider"

Attempt(cls, kwargs, http_client, r) ==
    [cls |-> cls, kwargs |-> kwargs, http_client |-> http_client, result |-> r]

\* the client object a successful construction yields
Client(b, e, http_client, url_str) ==
    IF b = "azure"
    THEN AzureOpenAI(Kwargs(b, e).base_url, Kwargs(b, e).api_version, http_client, url_str)
    ELSE OpenAI(Kwargs(b, e).base_url, http_client, url_str)

\* (mutant) every branch tries again after a TypeError without 'proxies'
RetriesOtherTypeError_Always(b) == TRUE

\* the else branch of `except TypeError`: the azure branch constructs the
\* client once more, the github and local branches re-raise
RetriesOtherTypeError(b) == b = "azure"

\* (mutant) the schema defaults to CityLocation, as create_agent's does
SelectOutputType_CityDefault(schema) ==
    IF schema = "mountain" THEN Mountain
    ELSE IF schema = "dynamic" THEN DynamicResponse
    ELSE CityLocation

\* the entry point's choice of output_type from args.schema
SelectOutputType(schema) ==
    IF ~Not(schema) /\ schema = "city" THEN CityLocation
    ELSE IF ~Not(schema) /\ schema = "mountain" THEN Mountain
    ELSE DynamicResponse

\* binding of create_agent's parameters: provider_type='github',
\* output_type=CityLocation, debug_level='INFO'
Bind(pt, ot, dl) ==
    [provider_type |-> IF pt = Omitted THEN "github" ELSE pt,
     output_type |-> IF ot = Omitted THEN CityLocation ELSE ot,
     defaulted |-> ot = Omitted,
     debug_level |-> IF dl = Omitted THEN "INFO" ELSE dl]

ProviderChoices == {"github", "azure", "local"}

SchemaChoices == {"city", "mountain", "dynamic"}

DebugChoices == {"DEBUG", "INFO"}

\* provider types a direct caller may pass
ProviderArgs == ProviderChoices \cup {"anthropic", "GitHub", Omitted}

NoArgs == [provider |-> PyNone, schema |-> PyNone, debug |-> PyNone]

CanStart == cpc \in {"idle", "done"} /\ main_out # "pending"

\* create_agent is entered with bound parameters b
Enter(b) ==
    /\ provider_type' = b.provider_type
    /\ output_type' = b.output_type
    /\ defaulted' = b.defaulted
    /\ debug_level' = b.debug_level
    /\ cpc' = "check"
    /\ env_reads' = {}
    /\ constructed' = <<>>
    /\ logger' = None
    /\ result' = None

\* the entry point of a script: parse the command line, warn about the
\* Azure configuration, choose the output type, call create_agent
Main ==
    /\ CanStart
    /\ \E p \in ProviderChoices,
          sch \in (IF impl = "root" THEN SchemaChoices \cup {PyNone} ELSE {PyNone}),
          dbg \in (IF impl = "debug" THEN DebugChoices ELSE {PyNone}) :
         /\ args' = [provider |-> p, schema |-> sch, debug |-> dbg]
         /\ warned' = /\ impl \in {"root", "azure_ai"}
                      /\ p = "azure"
                      /\ \/ Not(os_environ_get(env, "AZURE_ENDPOINT"))
                         \/ Not(os_environ_get(env, "AZURE_API_KEY"))
                         \/ os_environ_get(env, "AZURE_ENDPOINT") = PlaceholderEndpoint
         /\ Enter(CASE impl = "root" -> Bind(p, SelectOutputType(sch), Omitted)
                    [] impl = "azure_ai" -> Bind(p, Omitted, Omitted)
                    [] impl = "debug" -> Bind(p, Omitted, dbg))
    /\ caller' = "main"
    /\ main_out' = "pending"
    /\ UNCHANGED <<impl, env>>
    /\ UNCHANGED <<runVars, visionVars>>

\* create_agent called from other code, with any arguments
DirectCall ==
    /\ CanStart
    /\ \E pt \in ProviderArgs, ot \in OutputTypes \cup {Omitted},
          dl \in (IF impl = "debug" THEN DebugChoices \cup {Omitted} ELSE {Omitted}) :
         Enter(Bind(pt, ot, dl))
    /\ caller' = "direct"
    /\ args' = NoArgs
    /\ warned' = FALSE
    /\ main_out' = "none"
    /\ UNCHANGED <<impl, env>>
    /\ UNCHANGED <<runVars, visionVars>>

\* the head of create_agent: set up the logger (debug script), select the
\* branch, read its environment variables, raise ValueError for a missing
\* credential or an unsupported provider type
CheckProvider ==
    /\ cpc = "check"
    /\ logger' = IF impl = "debug"
                 THEN [name |-> "pydantic_agent", level |-> debug_level]
                 ELSE logger
    /\ LET b == Branch(provider_type)
       IN /\ env_reads' = BranchReads(b)
          /\ IF b = "unsupported"
             THEN /\ result' = RaiseMsg("ValueError",
                                        <<"Unsupported provider type: ", provider_type>>)
                  /\ cpc' = "done"
             ELSE IF CredentialsMissing(b, env)
             THEN /\ result' = RaiseMsg("ValueError", MissingMessage(b))
                  /\ cpc' = "done"
             ELSE /\ cpc' = "construct"
                  /\ UNCHANGED result
    /\ UNCHANGED <<impl, env, caller, args, provider_type, output_type, defaulted,
                   debug_level, constructed, warned, main_out>>
    /\ UNCHANGED <<runVars, visionVars>>

\* root script: the first OpenAI(...) / AzureOpenAI(...) call inside try
ConstructClient ==
    /\ cpc = "construct"
    /\ impl = "root"
    /\ LET b == Branch(provider_type)
       IN \E r \in ConstructResults :
            /\ constructed' = Append(constructed,
                                     Attempt(ClientClass(b), Kwargs(b, env), FALSE, r))
            /\ IF r = "ok"
               THEN /\ \E s \in BOOLEAN :
                         result' = [kind |-> "agent",
                                    agent |-> SimpleAgent(Client(b, env, FALSE, s), output_type),
                                    logger |-> None]
                    /\ cpc' = "done"
               ELSE IF IsTypeError(r) /\ (MentionsProxies(r) \/ RetriesOtherTypeError(b))
               THEN /\ cpc' = "retry"
                    /\ UNCHANGED result
               ELSE /\ result' = RaiseMsg(ExcOf(r), <<>>)
                    /\ cpc' = "done"
    /\ UNCHANGED <<impl, env, caller, args, provider_type, output_type, defaulted,
                   debug_level, env_reads, logger, warned, main_out>>
    /\ UNCHANGED <<runVars, visionVars>>

\* root script: the construction inside `except TypeError`: with
\* http_client=httpx.Client() after a 'proxies' error, with the plain
\* arguments again on the azure branch otherwise; nothing catches its errors
RetryConstruct ==
    /\ cpc = "retry"
    /\ LET b == Branch(provider_type)
           with_http == MentionsProxies(constructed[Len(constructed)].result)
       IN \E r \in ConstructResults :
            /\ constructed' = Append(constructed,
                                     Attempt(ClientClass(b), Kwargs(b, env), with_http, r))
            /\ IF r = "ok"
               THEN \E s \in BOOLEAN :
                         result' = [kind |-> "agent",
                                    agent |-> SimpleAgent(Client(b, env, with_http, s),
                                                          output_type),
                                    logger |-> None]
               ELSE result' = RaiseMsg(ExcOf(r), <<>>)
            /\ cpc' = "done"
    /\ UNCHANGED <<impl, env, caller, args, provider_type, output_type, defaulted,
                   debug_level, env_reads, logger, warned, main_out>>
    /\ UNCHANGED <<runVars, visionVars>>

\* azure-ai scripts: provider, OpenAIModel and Agent are constructed with
\* no try around them; the debug script returns (agent, logger)
ConstructProvider ==
    /\ cpc = "construct"
    /\ impl # "root"
    /\ LET b == Branch(provider_type)
       IN \E r \in ConstructResults :
            /\ constructed' = Append(constructed,
                                     Attempt(ProviderClass(b), Kwargs(b, env), FALSE, r))
            /\ IF r = "ok"
               THEN result' = [kind |-> "agent",
                               agent |-> [model |-> [model_name |->
                                                        IF b = "github" THEN "openai/gpt-4o"
                                                        ELSE "gpt-4o",
                                                     provider |-> ProviderClass(b)],
                                          output_type |-> output_type],
                               logger |-> logger]
               ELSE result' = RaiseMsg(ExcOf(r), <<>>)
            /\ cpc' = "done"
    /\ UNCHANGED <<impl, env, caller, args, provider_type, output_type, defaulted,
                   debug_level, env_reads, logger, warned, main_out>>
    /\ UNCHANGED <<runVars, visionVars>>

\* the entry point after create_agent: go on to run_sync, or the
\* `except ValueError` help text, or the handler for other exceptions
\* (the azure-ai script has none)
MainHandle ==
    /\ cpc = "done"
    /\ caller = "main"
    /\ main_out = "pending"
    /\ main_out' = IF result.kind = "agent" THEN "running"
                   ELSE IF result.exc = "ValueError" THEN "config_error"
                   ELSE IF impl = "azure_ai" THEN "propagated"
                   ELSE "unexpected_error"
    /\ UNCHANGED <<impl, env, cpc, caller, args, provider_type, output_type, defaulted,
                   debug_level, env_reads, constructed, logger, result, warned>>
    /\ UNCHANGED <<runVars, visionVars>>

-----------------------------------------------------------------------------
(* main of autogen-sample/demo_multimodal_autogen.py                       *)

VisionModel == "meta/Llama-4-Scout-17B-16E-Instruct"

ImageUrl == "https://static.independent.co.uk/2025/04/19/19/41/GettyImages-2210861096.jpg"

\* AzureAIChatCompletionClient(model=..., endpoint=..., credential=...)
AzureAIChatCompletionClient(token) ==
    [cls |-> "AzureAIChatCompletionClient", model |-> VisionModel,
     endpoint |-> GithubBaseUrl, credential |-> token]

\* AssistantAgent(name="vision_agent", model_client=client)
AssistantAgent(client) == [name |-> "vision_agent", model_client |-> client]

\* what a constructor or an awaited call does
CallResults == {"ok", "raise"}

\* what requests.get(image_url, timeout=10) does: a response with a status
\* and a body, or a RequestException
FetchResults ==
    { [kind |-> "response", status_code |-> 200, content |-> c] :
        c \in {"jpeg", "html"} }
    \cup { [kind |-> "response", status_code |-> st, content |-> "html"] :
             st \in {404, 500} }
    \cup { [kind |-> "raise", exc |-> e] : e \in {"ConnectionError", "Timeout"} }

\* response.raise_for_status() raises HTTPError for a 4xx / 5xx status
RaisesForStatus(status_code) == status_code >= 400

\* PILImage.open(BytesIO(content)) fails on bytes that are no image
OpensAsImage(content) == content = "jpeg"

\* the chat messages the agent can answer with
ChatMessages == {"A crowd in front of a stage.", "I cannot see the image."}

\* load_dotenv, the GITHUB_TOKEN test and sys.exit(1)
StartMain ==
    /\ vpc = "start"
    /\ IF Not(os_environ_get(env, "GITHUB_TOKEN"))
       THEN /\ printed' = Append(printed, "Error: GITHUB_TOKEN not found in environment variables")
            /\ vexit' = "SystemExit"
            /\ vpc' = "ended"
       ELSE /\ vpc' = "client"
            /\ UNCHANGED <<printed, vexit>>
    /\ UNCHANGED <<vclient, vagent, vresponse, closes>>
    /\ UNCHANGED <<runVars, createVars>>

\* the outer try: AzureAIChatCompletionClient(...); an exception goes to
\* the outer `except Exception`
ConstructVisionClient ==
    /\ vpc = "client"
    /\ \E r \in CallResults :
         IF r = "ok"
         THEN /\ vclient' = AzureAIChatCompletionClient(os_environ_get(env, "GITHUB_TOKEN"))
              /\ vpc' = "agent"
              /\ UNCHANGED <<printed, vexit>>
         ELSE /\ printed' = Append(printed, "Error initializing client")
              /\ vexit' = "returned"
              /\ vpc' = "ended"
              /\ UNCHANGED vclient
    /\ UNCHANGED <<vagent, vresponse, closes>>
    /\ UNCHANGED <<runVars, createVars>>

\* AssistantAgent(...) sits in the outer try but before the inner
\* try/finally: its exception goes straight to the outer `except Exception`
ConstructAssistant ==
    /\ vpc = "agent"
    /\ \E r \in CallResults :
         IF r = "ok"
         THEN /\ vagent' = AssistantAgent(vclient)
              /\ vpc' = "fetch"
              /\ UNCHANGED <<printed, vexit>>
         ELSE /\ printed' = Append(printed, "Error initializing client")
              /\ vexit' = "returned"
              /\ vpc' = "ended"
              /\ UNCHANGED vagent
    /\ UNCHANGED <<vclient, vresponse, closes>>
    /\ UNCHANGED <<runVars, createVars>>

\* requests.get and raise_for_status inside the inner try; a
\* RequestException is printed and control goes to finally
FetchImage ==
    /\ vpc = "fetch"
    /\ \E r \in FetchResults :
         IF r.kind = "raise"
         THEN /\ printed' = Append(printed, "Error fetching image")
              /\ vpc' = "finally"
              /\ UNCHANGED vresponse
         ELSE IF RaisesForStatus(r.status_code)
         THEN /\ vresponse' = r
              /\ printed' = Append(printed, "Error fetching image")
              /\ vpc' = "finally"
         ELSE /\ vresponse' = r
              /\ vpc' = "decode"
              /\ UNCHANGED printed
    /\ UNCHANGED <<vclient, vagent, closes, vexit>>
    /\ UNCHANGED <<runVars, createVars>>

\* PILImage.open, AGImage and MultiModalMessage; any other exception is
\* printed and control goes to finally
BuildMessage ==
    /\ vpc = "decode"
    /\ IF OpensAsImage(vresponse.content)
       THEN /\ vpc' = "ask"
            /\ UNCHANGED printed
       ELSE /\ printed' = Append(printed, "Error processing request")
            /\ vpc' = "finally"
    /\ UNCHANGED <<vclient, vagent, vresponse, closes, vexit>>
    /\ UNCHANGED <<runVars, createVars>>

\* await agent.on_messages(...) and the print of the chat message
AskAgent ==
    /\ vpc = "ask"
    /\ \/ \E m \in ChatMessages :
            /\ vresponse' = [kind |-> "Response", chat_message |-> m]
            /\ printed' = Append(printed, m)
       \/ /\ printed' = Append(printed, "Error processing request")
          /\ UNCHANGED vresponse
    /\ vpc' = "finally"
    /\ UNCHANGED <<vclient, vagent, closes, vexit>>
    /\ UNCHANGED <<runVars, createVars>>

\* the finally clause: await client.close(); its exception goes to the
\* outer `except Exception`
CloseClient ==
    /\ vpc = "finally"
    /\ closes' = closes + 1
    /\ \E r \in CallResults :
         printed' = IF r = "ok" THEN printed
                    ELSE Append(printed, "Error initializing client")
    /\ vexit' = "returned"
    /\ vpc' = "ended"
    /\ UNCHANGED <<vclient, vagent, vresponse>>
    /\ UNCHANGED <<runVars, createVars>>

\* main has not started
VisionIdle ==
    /\ vpc = "start"
    /\ vclient = None
    /\ vagent = None
    /\ vresponse = None
    /\ closes = 0
    /\ printed = <<>>
    /\ vexit = "running"

-----------------------------------------------------------------------------
(* Specifications                                                          *)

RunInit ==
    /\ agent \in { SimpleAgent(c, T) : c \in RunClients, T \in OutputTypes }
    /\ pc = "idle"
    /\ query = ""
    /\ messages = <<>>
    /\ requests = <<>>
    /\ responses = <<>>
    /\ response = None
    /\ json_content = None
    /\ usage_info = None
    /\ outcome = None
    /\ steps = <<>>
    /\ prev = None

\* no create_agent call is running
CreateIdle ==
    /\ cpc = "idle"
    /\ caller = "direct"
    /\ args = NoArgs
    /\ provider_type = "github"
    /\ output_type = CityLocation
    /\ defaulted = FALSE
    /\ debug_level = "INFO"
    /\ env_reads = {}
    /\ constructed = <<>>
    /\ logger = None
    /\ result = None
    /\ warned = FALSE
    /\ main_out = "none"

Init ==
    /\ RunInit
    /\ CreateIdle
    /\ VisionIdle
    /\ impl = "root"
    /\ env = [GITHUB_TOKEN |-> "ghp_token", AZURE_ENDPOINT |-> AzureEndpoint,
              AZURE_API_KEY |-> "azure-key", AZURE_API_VERSION |-> PyNone,
              OPENAI_API_KEY |-> "sk-key"]

Next ==
    \/ \E q \in Queries : Call(q)
    \/ BuildPrompt
    \/ SendRequest
    \/ SendFallback
    \/ ReadResponse
    \/ Validate

vars == <<runVars, createVars, visionVars>>

Spec == Init /\ [][Next]_vars

\* every started step of run_sync is eventually executed: the interpreter
\* runs the body to its end and each client call returns or raises
FairSpec == Spec /\ WF_vars(run_sync)

InitCreate ==
    /\ CreateIdle
    /\ VisionIdle
    /\ impl \in Impls
    /\ env \in Environments
    /\ agent = None
    /\ pc = "idle"
    /\ query = ""
    /\ messages = <<>>
    /\ requests = <<>>
    /\ responses = <<>>
    /\ response = None
    /\ json_content = None
    /\ usage_info = None
    /\ outcome = None
    /\ steps = <<>>
    /\ prev = None

NextCreate ==
    \/ Main
    \/ DirectCall
    \/ CheckProvider
    \/ ConstructClient
    \/ RetryConstruct
    \/ ConstructProvider
    \/ MainHandle

SpecCreate == InitCreate /\ [][NextCreate]_vars

InitVision ==
    /\ VisionIdle
    /\ CreateIdle
    /\ impl = "root"
    /\ env \in Environments
    /\ agent = None
    /\ pc = "idle"
    /\ query = ""
    /\ messages = <<>>
    /\ requests = <<>>
    /\ responses = <<>>
    /\ response = None
    /\ json_content = None
    /\ usage_info = None
    /\ outcome = None
    /\ steps = <<>>
    /\ prev = None

NextVision ==
    \/ StartMain
    \/ ConstructVisionClient
    \/ ConstructAssistant
    \/ FetchImage
    \/ BuildMessage
    \/ AskAgent
    \/ CloseClient

SpecVision == InitVision /\ [][NextVision]_vars

-----------------------------------------------------------------------------
(* Properties of SimpleAgent.run_sync                                      *)

IsAzure == agent.client.cls = "AzureOpenAI"

\* the content of the response the call received, when it has a choice
HasContent == response # None /\ response.choices # <<>>

Content == response.choices[1].message.content

Validates(c) == model_validate_json(agent.output_type, c).ok

\* C1 (as stated): every run_sync call issues at most one chat-completion
\* request, for OpenAI and AzureOpenAI clients alike, and a request that
\* raised is never followed by another request.
C1_Original ==
    /\ Len(requests) <= 1
    /\ \A i \in 1..Len(responses) : responses[i].kind = "raise" => Len(requests) = i

\* C1 (amended): with an OpenAI client a run_sync call issues at most one
\* request, also when that request raises; with an AzureOpenAI client it
\* issues at most two, the second only after the first one raised.
C1_Amended ==
    /\ ~IsAzure => /\ Len(requests) <= 1
                   /\ \A i \in 1..Len(responses) :
                        responses[i].kind = "raise" => Len(requests) = i
    /\ IsAzure => /\ Len(requests) <= 2
                  /\ Len(requests) = 2 => responses[1].kind = "raise"

C1_Witness ==
    /\ ~IsAzure
    /\ pc = "done"
    /\ Len(requests) = 1
    /\ responses[1].kind = "raise"
    /\ outcome = Raise("APIError")

\* C2 (as stated): run_sync returns an AgentResult only when the response
\* content validates against output_type, and whenever the content does not
\* validate the call ends with ValueError.
C2_Original ==
    /\ (pc = "done" /\ outcome.kind = "AgentResult")
          => HasContent /\ Validates(Content)
    /\ (pc = "done" /\ HasContent /\ ~Validates(Content))
          => outcome = Raise("ValueError")

\* C2 (amended): run_sync returns an AgentResult only when the response
\* content validates against output_type, and then it carries the validated
\* model; whenever the response carries usage data and its content does not
\* validate, the call ends with ValueError; a response without usage data
\* ends the call with an exception before validation, so an unvalidated
\* output is never returned.
C2_Amended ==
    /\ (pc = "done" /\ outcome.kind = "AgentResult")
          => /\ HasContent /\ Validates(Content)
             /\ outcome.output = model_validate_json(agent.output_type, Content).output
    /\ (pc = "done" /\ HasContent /\ response.usage # None /\ ~Validates(Content))
          => outcome = Raise("ValueError")
    /\ (pc = "done" /\ HasContent /\ ~Validates(Content))
          => outcome.kind = "raise"

C2_Witness ==
    /\ pc = "done"
    /\ HasContent
    /\ Content # None /\ Content.kind = "object"
    /\ ~Validates(Content)
    /\ outcome = Raise("ValueError")

SchemaText == json_dumps(model_json_schema(agent.output_type))

\* C3 (as stated): for CityLocation, Mountain and DynamicResponse alike, the
\* system message of every request run_sync sends contains the JSON schema
\* of the agent's output_type.
C3_Original ==
    \A i \in 1..Len(requests) :
        /\ requests[i].messages[1].role = "system"
        /\ Contains(requests[i].messages[1].content, SchemaText)

\* C3 (amended): for CityLocation and Mountain the system message of every
\* request contains the JSON schema of the output_type; for DynamicResponse
\* it does not: it only asks for a JSON object.
C3_Amended ==
    \A i \in 1..Len(requests) :
        /\ requests[i].messages[1].role = "system"
        /\ agent.output_type # DynamicResponse
             => Contains(requests[i].messages[1].content, SchemaText)
        /\ agent.output_type = DynamicResponse
             => ~Contains(requests[i].messages[1].content, SchemaText)

C3_Witness ==
    /\ Len(requests) = 1
    /\ agent.output_type = Mountain
    /\ Contains(requests[1].messages[1].content,
                <<"height", ":", "{", "title", ":", "Height", ",", "type", ":", "string", "}">>)

IsPrefix(s, t) == Len(s) <= Len(t) /\ \A i \in 1..Len(s) : s[i] = t[i]

FourSteps == <<"build", "request", "read", "validate">>

FiveSteps == <<"build", "request", "request", "read", "validate">>

Ended == pc = "done" /\ outcome.kind \in {"AgentResult", "raise"}

\* C4 (as stated): the steps of a run_sync call are executed in the order
\* prompt, request, read, validate, none of them twice, and a finished call
\* has an AgentResult or a raised exception.
C4_Original ==
    /\ IsPrefix(steps, FourSteps)
    /\ pc = "done" => Ended

C4_Linear ==
    /\ \/ IsPrefix(steps, FourSteps)
       \/ /\ IsPrefix(steps, FiveSteps)
          /\ IsAzure
          /\ responses[1].kind = "raise"
    /\ pc = "done" => Ended

\* C4 (amended): the steps of a run_sync call are executed in the order
\* prompt, request, read, validate; none is executed twice except the
\* request, which an AzureOpenAI client sends a second time after the first
\* one raised; and every started call ends with an AgentResult or a raised
\* exception.
C4_Amended == [] C4_Linear /\ (pc = "build" ~> Ended)

C4_Witness ==
    /\ steps = FiveSteps
    /\ pc = "done"
    /\ outcome.kind = "AgentResult"

C5_SameOutcome ==
    (pc = "done" /\ prev # None /\ prev.query = query /\ prev.responses = responses)
        => prev.outcome = outcome

\* C5: run_sync never changes the agent's client or output_type, whether it
\* returns or raises, and two calls on one agent with the same query and
\* the same responses end the same way, whatever calls came before.
C5_Stateless == [] C5_SameOutcome /\ [][agent' = agent]_vars

C5_Witness ==
    /\ pc = "done"
    /\ prev # None
    /\ prev.query = query
    /\ prev.responses = responses
    /\ Len(responses) = 1
    /\ outcome = Raise("ValueError")

\* C9: with an AzureOpenAI client the first request names model "gpt-4o";
\* a second request is sent exactly when the first one raised, it names
\* "gpt-4" and repeats the messages and the response_format; when it raises
\* too the call ends with that exception and there is no third request.
C9_AzureFallback ==
    IsAzure =>
        /\ Len(requests) <= 2
        /\ Len(requests) >= 1 => requests[1].model = "gpt-4o"
        /\ Len(requests) = 2 => responses[1].kind = "raise"
        /\ (Len(responses) >= 1 /\ responses[1].kind = "raise" /\ pc # "fallback")
              => Len(requests) = 2
        /\ Len(requests) = 2
              => requests[2] = [requests[1] EXCEPT !.model = "gpt-4"]
        /\ (Len(responses) = 2 /\ responses[2].kind = "raise")
              => pc = "done" /\ outcome = Raise("APIError")

C9_Witness ==
    /\ IsAzure
    /\ Len(requests) = 2
    /\ responses[2].kind = "raise"
    /\ pc = "done"

-----------------------------------------------------------------------------
(* Properties of create_agent and the entry points                         *)

\* the running create_agent call is past its head
Checked == cpc \in {"construct", "retry", "done"}

Unset(name) == env[name] = PyNone \/ env[name] = ""

MissingCredential ==
    \/ provider_type = "github" /\ Unset("GITHUB_TOKEN")
    \/ provider_type = "azure" /\ (Unset("AZURE_ENDPOINT") \/ Unset("AZURE_API_KEY"))
    \/ provider_type = "local" /\ Unset("OPENAI_API_KEY")

OwnVariables ==
    CASE provider_type = "github" -> {"GITHUB_TOKEN"}
      [] provider_type = "azure" -> {"AZURE_ENDPOINT", "AZURE_API_KEY", "AZURE_API_VERSION"}
      [] provider_type = "local" -> {"OPENAI_API_KEY"}
      [] OTHER -> {}

RaisedValueError == result.kind = "raise" /\ result.exc = "ValueError"

\* C6: in each of the three create_agent implementations, a call whose
\* provider's credential is unset or empty (github: GITHUB_TOKEN; azure:
\* AZURE_ENDPOINT or AZURE_API_KEY; local: OPENAI_API_KEY) ends with
\* ValueError before anything is constructed, the entry point then takes
\* its ValueError handler, and a call whose own credentials are set never
\* reads another provider's variables nor fails with ValueError.
C6_MissingCredential ==
    /\ (Checked /\ MissingCredential)
          => /\ cpc = "done"
             /\ RaisedValueError
             /\ constructed = <<>>
             /\ caller = "main" => main_out \in {"pending", "config_error"}
    /\ (Checked /\ provider_type \in ProviderChoices /\ ~MissingCredential)
          => ~RaisedValueError
    /\ env_reads \subseteq OwnVariables

C6_Witness ==
    /\ impl = "debug"
    /\ caller = "main"
    /\ provider_type = "azure"
    /\ env["AZURE_ENDPOINT"] = AzureEndpoint
    /\ env["AZURE_API_KEY"] = ""
    /\ env["GITHUB_TOKEN"] = "ghp_token"
    /\ RaisedValueError
    /\ main_out = "config_error"

Unsupported == provider_type \notin {"github", "azure", "local"}

\* C7: create_agent accepts exactly 'github', 'azure' and 'local': a call
\* with any other provider_type ends with ValueError("Unsupported provider
\* type: ...") having read no environment variable and constructed
\* nothing, and an agent is returned only for one of the three.
C7_UnsupportedProvider ==
    /\ (Checked /\ Unsupported)
          => /\ cpc = "done"
             /\ result = RaiseMsg("ValueError",
                                  <<"Unsupported provider type: ", provider_type>>)
             /\ env_reads = {}
             /\ constructed = <<>>
    /\ (Checked /\ result.kind = "agent") => ~Unsupported
    /\ (Checked /\ ~Unsupported /\ RaisedValueError)
          => result.msg # <<"Unsupported provider type: ", provider_type>>

C7_Witness ==
    /\ impl = "azure_ai"
    /\ provider_type = "GitHub"
    /\ cpc = "done"
    /\ RaisedValueError
    /\ env["GITHUB_TOKEN"] = "ghp_token"

\* C8: the entry point of demo_agent_pydanticai.py always passes an
\* output type to create_agent: DynamicResponse when --schema is omitted or
\* 'dynamic', CityLocation when it is 'city', Mountain when it is
\* 'mountain'; the parameter's default is never used.
C8_SchemaDefault ==
    (impl = "root" /\ caller = "main" /\ cpc # "idle")
        => /\ ~defaulted
           /\ args.schema \in {PyNone, "dynamic"} => output_type = DynamicResponse
           /\ args.schema = "city" => output_type = CityLocation
           /\ args.schema = "mountain" => output_type = Mountain
           /\ result.kind = "agent" => result.agent.output_type = output_type

C8_Witness ==
    /\ impl = "root"
    /\ caller = "main"
    /\ args.schema = PyNone
    /\ result.kind = "agent"
    /\ result.agent.output_type = DynamicResponse

NumAttempts == Len(constructed)

FirstFailedWith(r) == NumAttempts >= 1 /\ constructed[1].result = r

\* C10 (as stated): create_agent of demo_agent_pydanticai.py attempts the
\* client construction at most twice; after a TypeError mentioning
\* 'proxies' there is exactly one further attempt, with an httpx client;
\* for every provider a TypeError not mentioning 'proxies' is re-raised
\* with no second attempt.
C10_Original ==
    impl = "root" =>
        /\ NumAttempts <= 2
        /\ (FirstFailedWith("TypeError:proxies") /\ cpc = "done")
              => NumAttempts = 2 /\ constructed[2].http_client
        /\ FirstFailedWith("TypeError:other")
              => /\ NumAttempts = 1
                 /\ cpc = "done" => result = RaiseMsg("TypeError", <<>>)

\* C10 (amended): create_agent of demo_agent_pydanticai.py attempts the
\* client construction at most twice; after a TypeError mentioning
\* 'proxies' there is exactly one further attempt, with an httpx client;
\* a TypeError not mentioning 'proxies' is re-raised with no second attempt
\* for the github and local providers, while for the azure provider it is
\* followed by exactly one further attempt with the same arguments and no
\* httpx client; an exception of the second attempt is not caught.
C10_Amended ==
    impl = "root" =>
        /\ NumAttempts <= 2
        /\ NumAttempts >= 1 => ~constructed[1].http_client
        /\ NumAttempts = 2 => /\ IsTypeError(constructed[1].result)
                              /\ constructed[2].cls = constructed[1].cls
                              /\ constructed[2].kwargs = constructed[1].kwargs
        /\ (FirstFailedWith("TypeError:proxies") /\ cpc = "done")
              => NumAttempts = 2 /\ constructed[2].http_client
        /\ (FirstFailedWith("TypeError:other") /\ provider_type # "azure")
              => /\ NumAttempts = 1
                 /\ cpc = "done"
                 /\ result = RaiseMsg("TypeError", <<>>)
        /\ (FirstFailedWith("TypeError:other") /\ provider_type = "azure" /\ cpc = "done")
              => NumAttempts = 2 /\ ~constructed[2].http_client
        /\ (NumAttempts = 2 /\ constructed[2].result # "ok")
              => cpc = "done" /\ result = RaiseMsg(ExcOf(constructed[2].result), <<>>)

C10_Witness ==
    /\ impl = "root"
    /\ provider_type = "local"
    /\ FirstFailedWith("TypeError:proxies")
    /\ NumAttempts = 2
    /\ constructed[2].http_client
    /\ result.kind = "agent"
    /\ result.agent.client.http_client

-----------------------------------------------------------------------------
(* Properties of main of demo_multimodal_autogen.py                        *)

ClientConstructed == vclient # None

\* C11: on every path of main on which the AzureAIChatCompletionClient was
\* constructed, client.close() is called exactly once before main returns,
\* also when the agent construction, the image fetch or the agent call
\* raises; it is never called twice.
C11_CloseOnce ==
    /\ closes <= 1
    /\ (vexit = "returned" /\ ClientConstructed) => closes = 1

====
